---- MODULE Spec2Model ----
(***************************************************************************)
(* the-editor, src/main.c: a recursive factorial over C `int` and a main   *)
(* that prints factorial(5).                                               *)
(*                                                                         *)
(* The model is the C abstract machine of that file: main's position, the  *)
(* stack of active factorial frames, the value a returning frame hands to  *)
(* its caller, main's local r, the bytes written to stdout and the exit    *)
(* status.  `int` is 32 bits wide.  Signed overflow in `x * factorial(x-1)`*)
(* is undefined behaviour: the build decides what happens, and the model   *)
(* keeps both outcomes a compiler produces for it, two's-complement        *)
(* wrap-around (the default code generation) and a trap that aborts the    *)
(* process (-ftrapv, -fsanitize=signed-integer-overflow).                  *)
(*                                                                         *)
(* factorial's contract is about every argument, not only main's literal:  *)
(* the argument of the outermost call is drawn from Args, and Exec runs    *)
(* the same binary again (a fresh process) with another argument.          *)
(***************************************************************************)
EXTENDS Integers, Sequences, FiniteSets

\* ------------------------------------------------------------- bounds

\* Largest argument handed to the outermost call.
MaxArg == 36

\* How many negative arguments are tried: -NegArgs .. -1.
NegArgs == 2

Args == (-NegArgs)..MaxArg

\* ------------------------------------------------------ the int type

\* INT_MAX of a 32-bit int.
IntMax == 2147483647

IntMin == -IntMax - 1

\* What a build makes of signed overflow.
Builds == {"wrap", "trap"}

\* Byte i (0 = least significant) of the two's-complement image of a.
ByteOf(a, i) == (a \div (256 ^ i)) % 256

\* The int whose two's-complement image is the four bytes b0..b3.
FromBytes(b0, b1, b2, b3) ==
    b0 + b1 * 256 + b2 * 65536
       + (IF b3 >= 128 THEN b3 - 256 ELSE b3) * 16777216

\* Whether the exact product a * b lies outside IntMin..IntMax.
Overflows(a, b) ==
    IF a = 0 \/ b = 0 THEN FALSE
    ELSE IF a > 0 /\ b > 0 THEN b > IntMax \div a
    ELSE IF a > 0 /\ b < 0 THEN b < (IntMin + a - 1) \div a
    ELSE IF a < 0 /\ b > 0 THEN a < (IntMin + b - 1) \div b
    ELSE a = IntMin \/ b = IntMin \/ (-b) > IntMax \div (-a)

\* A multiplication that clamps at the ends of the range instead of wrapping.
Mul32Saturating(a, b) ==
    IF ~Overflows(a, b) THEN a * b
    ELSE IF (a > 0) = (b > 0) THEN IntMax ELSE IntMin

\* An addition where the product belongs.
Mul32Sum(a, b) == a + b

\* x * y as the 32-bit multiplier computes it: the low 32 bits of the
\* product, read as a signed int.  Schoolbook multiplication on bytes.
Mul32(a, b) ==
    LET s0 == ByteOf(a, 0) * ByteOf(b, 0)
        s1 == ByteOf(a, 0) * ByteOf(b, 1) + ByteOf(a, 1) * ByteOf(b, 0)
              + s0 \div 256
        s2 == ByteOf(a, 0) * ByteOf(b, 2) + ByteOf(a, 1) * ByteOf(b, 1)
              + ByteOf(a, 2) * ByteOf(b, 0) + s1 \div 256
        s3 == ByteOf(a, 0) * ByteOf(b, 3) + ByteOf(a, 1) * ByteOf(b, 2)
              + ByteOf(a, 2) * ByteOf(b, 1) + ByteOf(a, 3) * ByteOf(b, 0)
              + s2 \div 256
    IN  FromBytes(s0 % 256, s1 % 256, s2 % 256, s3 % 256)

\* ------------------------------------------------------- factorial

\* The base-case test written the other way round.
IsBaseInverted(x) == 1 <= x

\* A base case for the two arguments whose factorial is 1 by definition.
IsBaseZeroOne(x) == x = 0 \/ x = 1

\* if (x <= 1)
IsBase(x) == x <= 1

\* The argument of the recursive call, skipping one.
PredSkip(x) == x - 2

\* factorial(x - 1): the argument of the recursive call.  x > 1 here, so
\* the subtraction cannot overflow.
Pred(x) == x - 1

\* ---------------------------------------------------------- printf

DigitChar(d) == <<"0", "1", "2", "3", "4", "5", "6", "7", "8", "9">>[d + 1]

\* The decimal digits of n >= 0, most significant first.
RECURSIVE Decimal(_)
Decimal(n) ==
    IF n < 10 THEN <<DigitChar(n)>>
    ELSE Decimal(n \div 10) \o <<DigitChar(n % 10)>>

\* The digits least significant first.
RECURSIVE DecimalReversed(_)
DecimalReversed(n) ==
    IF n < 10 THEN <<DigitChar(n)>>
    ELSE <<DigitChar(n % 10)>> \o DecimalReversed(n \div 10)

FormatDReversed(n) ==
    IF n >= 0 THEN DecimalReversed(n) ELSE <<"-">> \o DecimalReversed(-n)

\* The characters %d produces for the int n: an optional minus sign and the
\* decimal digits without leading zeros.
FormatD(n) ==
    IF n >= 0 THEN Decimal(n)
    ELSE LET d == (10 - (n % 10)) % 10
             q == -((n + d) \div 10)
         IN  <<"-">> \o (IF q = 0 THEN <<>> ELSE Decimal(q))
                     \o <<DigitChar(d)>>

\* ----------------------------------------------------------- state

VARIABLES
    build,    \* what this binary does on signed overflow
    arg,      \* the argument main passes to factorial
    pc,       \* where the process is
    stack,    \* the active factorial frames, outermost first
    ret,      \* the value the last returning frame returned
    r,        \* main's local r
    out,      \* the characters written to stdout
    status,   \* <<>> while running, <<code>> once main has returned
    calls,    \* how many times factorial has been entered in this process
    results,  \* argument |-> value, for every frame that has returned
    prev      \* results of the previous process of the same binary

vars == <<build, arg, pc, stack, ret, r, out, status, calls, results, prev>>

\* The literal in `factorial(5)`.
Literal == 5

\* The value of the base case: `return 1`.
BaseValueCounter == calls

BaseValue == 1

Top == stack[Len(stack)]

Pop == SubSeq(stack, 1, Len(stack) - 1)

Record(x, v) ==
    [y \in DOMAIN results \cup {x} |-> IF y = x THEN v ELSE results[y]]

\* Where control goes when the top frame returns.
AfterReturn == IF Len(stack) = 1 THEN "assign" ELSE "resume"

Init ==
    /\ build \in Builds
    /\ arg \in Args
    /\ pc = "main"
    /\ stack = <<>>
    /\ ret = 0
    /\ r = 0
    /\ out = <<>>
    /\ status = <<>>
    /\ calls = 0
    /\ results = <<>>
    /\ prev = <<>>

\* main: the call in `int r = factorial(5);`
MainCall ==
    /\ pc = "main"
    /\ stack' = <<[x |-> arg]>>
    /\ calls' = calls + 1
    /\ pc' = "entry"
    /\ UNCHANGED <<build, arg, ret, r, out, status, results, prev>>

\* factorial: `if (x <= 1) return 1;`
BaseCase ==
    /\ pc = "entry"
    /\ IsBase(Top.x)
    /\ ret' = BaseValue
    /\ results' = Record(Top.x, BaseValue)
    /\ stack' = Pop
    /\ pc' = AfterReturn
    /\ UNCHANGED <<build, arg, r, out, status, calls, prev>>

\* factorial: the call in `return x * factorial(x - 1);`
Recurse ==
    /\ pc = "entry"
    /\ ~IsBase(Top.x)
    /\ stack' = Append(stack, [x |-> Pred(Top.x)])
    /\ calls' = calls + 1
    /\ UNCHANGED <<build, arg, pc, ret, r, out, status, results, prev>>

\* factorial: the multiplication and the return in
\* `return x * factorial(x - 1);`, the callee's value being in ret.
MultiplyReturn ==
    /\ pc = "resume"
    /\ Overflows(Top.x, ret) => build = "wrap"
    /\ ret' = Mul32(Top.x, ret)
    /\ results' = Record(Top.x, Mul32(Top.x, ret))
    /\ stack' = Pop
    /\ pc' = AfterReturn
    /\ UNCHANGED <<build, arg, r, out, status, calls, prev>>

\* factorial: the multiplication overflows in a build that traps on it; the
\* process is killed where it stands.
OverflowTrap ==
    /\ pc = "resume"
    /\ Overflows(Top.x, ret)
    /\ build = "trap"
    /\ pc' = "trapped"
    /\ UNCHANGED <<build, arg, stack, ret, r, out, status, calls, results, prev>>

\* main: the initialisation of r with the returned value.
MainAssign ==
    /\ pc = "assign"
    /\ r' = ret
    /\ pc' = "print"
    /\ UNCHANGED <<build, arg, stack, ret, out, status, calls, results, prev>>

\* main: `printf("%d\n", r);`
Printf ==
    /\ pc = "print"
    /\ out' = out \o FormatD(r) \o <<"\n">>
    /\ pc' = "exit"
    /\ UNCHANGED <<build, arg, stack, ret, r, status, calls, results, prev>>

\* main: `return 0;`
MainReturn ==
    /\ pc = "exit"
    /\ status' = <<0>>
    /\ pc' = "done"
    /\ UNCHANGED <<build, arg, stack, ret, r, out, calls, results, prev>>

\* The binary is run again: a fresh process, whose outermost argument is
\* drawn anew.  Only the observer's record of the last run is kept.
Exec ==
    /\ pc \in {"done", "trapped"}
    /\ arg' \in Args
    /\ prev' = results
    /\ pc' = "main"
    /\ stack' = <<>>
    /\ ret' = 0
    /\ r' = 0
    /\ out' = <<>>
    /\ status' = <<>>
    /\ calls' = 0
    /\ results' = <<>>
    /\ UNCHANGED build

\* One step of a process.
Step ==
    \/ MainCall
    \/ BaseCase
    \/ Recurse
    \/ MultiplyReturn
    \/ OverflowTrap
    \/ MainAssign
    \/ Printf
    \/ MainReturn

Next == Step \/ Exec

Spec == Init /\ [][Next]_vars

\* One process, which runs to its end: nothing suspends a C program.
FairSpec == Init /\ [][Step]_vars /\ WF_vars(Step)

\* ------------------------------------------------- reference arithmetic

\* factorial has returned to main.
Returned == pc \in {"assign", "print", "exit", "done"}

Max(a, b) == IF a >= b THEN a ELSE b

\* n! as the product 1 * 2 * ... * n (n <= 12 keeps it below 2^31).
RECURSIVE MathFact(_)
MathFact(n) == IF n = 0 THEN 1 ELSE n * MathFact(n - 1)

\* Natural numbers of any size, as base-256 digits, least significant first,
\* without leading zeros.  MulCarry(s, k, c) is s * k + c.
RECURSIVE MulCarry(_, _, _)
MulCarry(s, k, c) ==
    IF s = <<>>
    THEN IF c = 0 THEN <<>> ELSE <<c % 256>> \o MulCarry(<<>>, k, c \div 256)
    ELSE LET t == Head(s) * k + c
         IN  <<t % 256>> \o MulCarry(Tail(s), k, t \div 256)

RECURSIVE BigFact(_)
BigFact(n) == IF n <= 1 THEN <<1>> ELSE MulCarry(BigFact(n - 1), n, 0)

\* The true n!, for every n the model reaches.
BigFactTable == [n \in 0..MaxArg |-> BigFact(n)]

RECURSIVE ToBig(_)
ToBig(n) == IF n = 0 THEN <<>> ELSE <<n % 256>> \o ToBig(n \div 256)

Digit(s, i) == IF i <= Len(s) THEN s[i] ELSE 0

\* A natural number reduced modulo 2^32 and read as a signed int.
Low32(s) == FromBytes(Digit(s, 1), Digit(s, 2), Digit(s, 3), Digit(s, 4))

\* x * v modulo 2^32 read as signed, for x > 0: the image of v multiplied
\* digit by digit by x, the digits above the fourth dropped.
RefMul(x, v) ==
    Low32(MulCarry(<<ByteOf(v, 0), ByteOf(v, 1), ByteOf(v, 2), ByteOf(v, 3)>>,
                   x, 0))

\* --------------------------------------------------------------- claims

\* C1: for every x in 0..12, factorial(x) returns exactly x!, the product
\* of 1..x, with factorial(0) = 1 and factorial(1) = 1; no build traps on
\* such an argument.
C1_ExactFactorial ==
    /\ \A x \in DOMAIN results : x \in 0..12 => results[x] = MathFact(x)
    /\ (Returned /\ arg \in 0..12) => ret = MathFact(arg)
    /\ arg \in 0..12 => pc # "trapped"
    /\ \A x \in DOMAIN results : x \in {0, 1} => results[x] = 1

C1_Witness ==
    pc = "assign" /\ arg = 12 /\ ret = 479001600 /\ build = "trap"

\* C2: a run of the program (main calling factorial with the literal 5)
\* eventually terminates having written exactly the line "120\n" to stdout,
\* with exit status 0, and writes nothing before factorial(5) has returned.
C2_PrintsOnce ==
    /\ [](arg = Literal =>
            \/ out = <<>>
            \/ out = <<"1", "2", "0", "\n">> /\ pc \in {"exit", "done"})
    /\ [](arg = Literal /\ status # <<>> => pc = "done" /\ status = <<0>>)
    /\ (arg = Literal /\ pc = "main")
         ~> (pc = "done" /\ out = <<"1", "2", "0", "\n">> /\ status = <<0>>)

C2_Witness ==
    /\ arg = Literal
    /\ pc = "done"
    /\ out = <<"1", "2", "0", "\n">>
    /\ status = <<0>>
    /\ r = 120

\* C3: for every x > 1, factorial(x) = x * factorial(x - 1), the
\* multiplication being the one the int type performs (modulo 2^32).
C3_Recurrence ==
    \A x \in DOMAIN results :
        x > 1 => /\ (x - 1) \in DOMAIN results
                 /\ results[x] = RefMul(x, results[x - 1])

C3_Witness ==
    /\ pc = "assign"
    /\ arg = 14
    /\ results[13] = 1932053504
    /\ results[14] = 1278945280

\* C4: factorial(12) is exactly 479001600, and factorial(13) fails with an
\* overflow error instead of returning a wrapped value.
C4_OverflowFails ==
    /\ (Returned /\ arg = 12) => ret = 479001600
    /\ arg = 13 => ~Returned

\* C5: for all x2 > x1 >= 0, factorial(x2) >= factorial(x1).
C5_Monotone ==
    \A x1, x2 \in DOMAIN results :
        (x2 > x1 /\ x1 >= 0) => results[x2] >= results[x1]

\* C6: for every x <= 1, negative x included, factorial(x) returns 1 at
\* once: no recursive call, no error, no unbounded recursion.
C6_BaseCase ==
    /\ \A i \in 1..Len(stack) : stack[i].x <= 1 => i = Len(stack)
    /\ \A x \in DOMAIN results : x <= 1 => results[x] = 1
    /\ arg <= 1 =>
        /\ Len(stack) <= 1
        /\ calls <= 1
        /\ pc \notin {"resume", "trapped"}
        /\ Returned => ret = 1 /\ calls = 1 /\ DOMAIN results = {arg}

C6_Witness ==
    pc = "assign" /\ arg = -NegArgs /\ ret = 1 /\ calls = 1

\* C7: factorial is purely functional: while control is inside factorial
\* nothing outside the call chain changes (stdout, the exit status, main's
\* r), and two calls with the same x return the same result.
C7_Pure ==
    /\ [][(pc \in {"entry", "resume"}) =>
            (out' = out /\ status' = status /\ r' = r /\ arg' = arg)]_vars
    /\ [](\A x \in DOMAIN results \cap DOMAIN prev : results[x] = prev[x])

C7_Witness ==
    /\ pc = "done"
    /\ out # <<>>
    /\ arg = 15
    /\ 14 \in DOMAIN results \cap DOMAIN prev
    /\ results[14] = prev[14]
    /\ 15 \notin DOMAIN prev

\* C8: evaluation of factorial(x) terminates for every x: each recursive
\* call's argument is one less than its caller's, the chain stops at the
\* first frame whose argument is <= 1, and factorial is entered exactly
\* max(x, 1) times.  (A build that traps on overflow ends the evaluation
\* by killing the process.)
C8_Terminates ==
    /\ [](\A i \in 2..Len(stack) : stack[i].x = stack[i - 1].x - 1)
    /\ [](\A i \in 1..(Len(stack) - 1) : stack[i].x > 1)
    /\ [](calls <= Max(arg, 1))
    /\ [](pc \notin {"main", "entry"} => calls = Max(arg, 1))
    /\ (pc = "main") ~> (pc = "assign" \/ (build = "trap" /\ pc = "trapped"))

C8_Witness ==
    pc = "assign" /\ arg = 7 /\ calls = 7 /\ stack = <<>>

\* C9: during the evaluation of factorial(x), x >= 1, the active frames
\* are one chain with arguments x, x-1, ..., k, 1 <= k <= x: consecutive,
\* pairwise distinct, at most x deep.
C9_CallChain ==
    arg >= 1 =>
        /\ Len(stack) <= arg
        /\ \A i \in 1..Len(stack) :
              stack[i].x = arg - (i - 1) /\ stack[i].x >= 1
        /\ \A i, j \in 1..Len(stack) : i # j => stack[i].x # stack[j].x

C9_Witness ==
    arg = 5 /\ Len(stack) = 5 /\ Top.x = 1 /\ pc = "entry"

\* C10: where int wraps, factorial(x) for x >= 13 still returns, with no
\* error, x! modulo 2^32 read as signed, which is not x!; it returns 0 for
\* every x >= 34.
C10_SilentWrap ==
    build = "wrap" =>
        /\ pc # "trapped"
        /\ \A x \in DOMAIN results :
              x >= 13 =>
                /\ results[x] = Low32(BigFactTable[x])
                /\ results[x] < 0 \/ ToBig(results[x]) # BigFactTable[x]
                /\ x >= 34 => results[x] = 0

C10_Witness ==
    /\ build = "wrap"
    /\ Returned
    /\ arg = MaxArg
    /\ ret = 0
    /\ results[34] = 0
    /\ results[33] # 0

====
